---- MODULE Spec2Model ----
(* A model of scan-exporter: the per-target scan engine (package scan) and   *)
(* the metrics sink (package metrics, Handle and icmpNotResponding).         *)
(*                                                                           *)
(* Go strings are sequences of one-character strings: "22" is <<"2","2">>.   *)
EXTENDS Integers, Sequences, FiniteSets, TLC

VARIABLES
    \* package scan, one target
    file,           \* the configuration file the target is built from
    configured,     \* the protocols the configuration of the target gives
    startTime,      \* Target.startTime: protocol -> instant, 0 is the zero instant
    clock,          \* the wall clock read by time.Now()
    ticks,          \* ticks each protocol ticker has delivered so far
    tickerPc,       \* position of each ticker goroutine
    trigger,        \* the trigger channel of Run
    runPc,          \* position of the trigger loop of Run
    runJobs,        \* jobs Run still has to send for the trigger it handles
    nextId,         \* the next fresh scan id
    jobsChan,       \* channel of jobs
    resChan,        \* channel of partial results
    postScan,       \* channel of scan outcomes
    workerJob,      \* the job each worker holds, <<>> when it waits
    openPorts,      \* receiver: scan id -> open ports received so far
    jobsStarted,    \* receiver: scan id -> partial results received so far
    rcvPc,          \* position of the receiver
    rcvOut,         \* the outcome the receiver is about to send, with its scan id
    \* package metrics, process wide
    numOfDownTargets,   \* gauge scanexporter_icmp_not_responding_total
    notRespondingList,  \* the down-host list
    unexpectedGauge,    \* gauge vector unexpectedPorts: <<proto, name>> -> value
    openGauge,          \* gauge vector openPorts
    closedGauge,        \* gauge vector closedPorts
    diffGauge,          \* gauge vector diffPorts
    rdb,                \* the Redis sets: <<ip, protocol>> -> set of port strings
    rdbUp,              \* does the Redis server answer
    \* one Handle call per caller
    hpc,            \* position of the caller inside Handle, "idle" outside
    hres,           \* the ResMsg of the call
    hlocal,         \* locals of the call, and what the sink held when it began
    hret,           \* what the last Handle call of the caller returned
    panicked,       \* a goroutine panicked: the process is gone
    \* history
    calls,          \* Handle calls issued so far by the metrics specifications
    sent,           \* scan id -> the ports of the partial results sent on resChan
    started,        \* scan cycles in the order Run created their jobs
    emitted,        \* scan outcomes in the order the receiver sent them
    handled,        \* set name -> the open ports of the last outcome given to Handle
    accesses,       \* the accesses to Target.startTime made so far
    \* a function of the program called on its own
    arg,            \* the arguments of the call
    ret             \* <<>> before the call, then the result in a one-element sequence

vars == <<file, configured, startTime, clock, ticks, tickerPc, trigger, runPc, runJobs, nextId, jobsChan,
          resChan, postScan, workerJob, openPorts, jobsStarted, rcvPc, rcvOut,
          numOfDownTargets, notRespondingList, unexpectedGauge, openGauge, closedGauge,
          diffGauge, rdb, rdbUp, hpc, hres, hlocal, hret, panicked, calls, sent,
          started, emitted, handled, accesses, arg, ret>>

scanVars == <<file, configured, startTime, clock, ticks, tickerPc, trigger, runPc, runJobs, nextId,
              jobsChan, resChan, postScan, workerJob, openPorts, jobsStarted, rcvPc,
              rcvOut, sent, started, emitted>>

metricVars == <<numOfDownTargets, notRespondingList, unexpectedGauge, openGauge,
                closedGauge, diffGauge, rdb, rdbUp>>

(***************************************************************************)
(* Bounds of the model.                                                    *)
(***************************************************************************)
\* ticks each protocol ticker delivers (the first one at start-up included)
MaxTicks == 2
\* Handle calls with an icmp outcome issued by the forwarders
MaxCalls == 4
\* Handle calls with a tcp outcome issued by the forwarders
MaxStoreCalls == 2
\* Handle calls issued by the forwarders when icmp and tcp outcomes are mixed
MaxSinkCalls == 2
\* length of the port lists given to createJobs and checkAccordance on their own
MaxPortsLen == 5
\* workers of the targets createJobs is called for on its own
MaxWorkers == 3
\* length of the open lists given to checkAccordance on its own
MaxOpenLen == 3
\* options given to New
MaxOptions == 1
\* length of the range expressions given to readPortsRange on its own
MaxExprLen == 4

(***************************************************************************)
(* Strings: strconv.Itoa, strconv.Atoi, strings.Split, common.StringInSlice *)
(***************************************************************************)
Digits == <<"0", "1", "2", "3", "4", "5", "6", "7", "8", "9">>

RECURSIVE ItoaNat(_)
ItoaNat(n) ==
    IF n < 10 THEN <<Digits[n + 1]>>
    ELSE ItoaNat(n \div 10) \o <<Digits[(n % 10) + 1]>>

\* strconv.Itoa
Itoa(n) == IF n < 0 THEN <<"-">> \o ItoaNat(0 - n) ELSE ItoaNat(n)

DigitVal(c) == CHOOSE d \in 0..9 : Digits[d + 1] = c

IsDigit(c) == \E d \in 0..9 : Digits[d + 1] = c

RECURSIVE DigitsVal(_)
DigitsVal(s) ==
    IF s = <<>> THEN 0
    ELSE 10 * DigitsVal(SubSeq(s, 1, Len(s) - 1)) + DigitVal(s[Len(s)])

\* strconv.Atoi: an optional sign, then one digit or more
Atoi(s) ==
    LET signed == s # <<>> /\ s[1] \in {"+", "-"}
        body == IF signed THEN Tail(s) ELSE s
        ok == body # <<>> /\ \A i \in 1..Len(body) : IsDigit(body[i])
    IN  IF ~ok THEN [err |-> TRUE, val |-> 0]
        ELSE [err |-> FALSE,
              val |-> IF signed /\ s[1] = "-" THEN 0 - DigitsVal(body)
                      ELSE DigitsVal(body)]

\* strings.Split with a one-character separator
RECURSIVE Split(_, _)
Split(s, sep) ==
    IF \A i \in 1..Len(s) : s[i] # sep THEN <<s>>
    ELSE LET k == CHOOSE i \in 1..Len(s) :
                     s[i] = sep /\ \A j \in 1..(i - 1) : s[j] # sep
         IN  <<SubSeq(s, 1, k - 1)>> \o Split(SubSeq(s, k + 1, Len(s)), sep)

\* strings.Contains with a one-character substring
Contains(s, c) == \E i \in 1..Len(s) : s[i] = c

\* common.StringInSlice
StringInSlice(a, list) == \E i \in 1..Len(list) : list[i] = a

Range(s) == {s[i] : i \in 1..Len(s)}

\* the ports from lo up to hi, hi left out
PortRunExclusive(lo, hi) == [i \in 1..(hi - lo) |-> Itoa(lo + i - 1)]

\* the ports lo..hi as strings, ascending
PortRun(lo, hi) == [i \in 1..(hi - lo + 1) |-> Itoa(lo + i - 1)]

\* the highest port number
MaxPort == 65535
\* the first port above the reserved ones
ReservedEnd == 1024

\* one token of a range expression (the body of the loop of readPortsRange)
readPortsSpec(spec) ==
    IF spec = <<"a", "l", "l">> THEN [err |-> FALSE, ports |-> PortRun(1, MaxPort)]
    ELSE IF spec = <<"r", "e", "s", "e", "r", "v", "e", "d">>
    THEN [err |-> FALSE, ports |-> PortRun(1, ReservedEnd - 1)]
    ELSE LET decomposedRange ==
                 IF ~Contains(spec, "-") THEN <<spec, spec>> ELSE Split(spec, "-")
             min == Atoi(decomposedRange[1])
             max == Atoi(decomposedRange[Len(decomposedRange)])
         IN  IF min.err \/ max.err THEN [err |-> TRUE, ports |-> <<>>]
             ELSE IF min.val > max.val THEN [err |-> TRUE, ports |-> <<>>]
             ELSE IF max.val > MaxPort THEN [err |-> TRUE, ports |-> <<>>]
             ELSE [err |-> FALSE, ports |-> PortRun(min.val, max.val)]

RECURSIVE readPortsParts(_)
readPortsParts(parts) ==
    IF parts = <<>> THEN [err |-> FALSE, ports |-> <<>>]
    ELSE IF Head(parts) = <<>> THEN readPortsParts(Tail(parts))
    ELSE LET one == readPortsSpec(Head(parts))
         IN  IF one.err THEN [err |-> TRUE, ports |-> <<>>]
             ELSE LET rest == readPortsParts(Tail(parts))
                  IN  IF rest.err THEN [err |-> TRUE, ports |-> <<>>]
                      ELSE [err |-> FALSE, ports |-> one.ports \o rest.ports]

\* readPortsRange: a range expression to the list of its ports
readPortsRange(ranges) == readPortsParts(Split(ranges, ","))

(***************************************************************************)
(* Maps (Go maps: a missing key reads as the zero value).                  *)
(***************************************************************************)
EmptyMap == [k \in {} |-> 0]

MapGet(m, k, zero) == IF k \in DOMAIN m THEN m[k] ELSE zero

MapPut(m, k, v) == [x \in (DOMAIN m) \cup {k} |-> IF x = k THEN v ELSE m[x]]

(***************************************************************************)
(* The configuration of the targets.                                       *)
(***************************************************************************)
Protos == {"tcp", "udp", "icmp"}

\* the target whose scan engine is modelled
ScanTarget == "t1"

\* the targets of the process: each has one forwarder that calls Handle
Targets == {"t1", "t2", "t3"}

\* Target.ip of every target; t3 shares the address of t1
TargetIP == [t \in Targets |->
                IF t = "t2" THEN "10.0.0.2" ELSE "10.0.0.1"]

\* the workers a configuration file gives the target: two, one in "single"
WorkersOf(f) == IF f = "single" THEN 1 ELSE 2

\* Target.workers
Workers == WorkersOf(file)

\* what the configuration file gives for a protocol: period, range, expected
\* tcp: range "22,80" expected "22,443"; udp: range "53" expected "53"
ConfigOf(p) ==
    CASE p = "tcp" -> [period |-> "10s",
                       rng |-> <<"2", "2", ",", "8", "0">>,
                       expected |-> <<"2", "2", ",", "4", "4", "3">>]
      [] p = "udp" -> [period |-> "1m",
                       rng |-> <<"5", "3">>,
                       expected |-> <<"5", "3">>]
      [] p = "icmp" -> [period |-> "5s", rng |-> <<>>, expected |-> <<>>]

\* the configuration files: the one above; one whose ranges name a port twice
\* (tcp "22,22", udp "53,53"); one whose ranges give no port (tcp "", udp ",");
\* the one above with a single worker
ConfigFiles == {"base", "duplicates", "empty", "single"}

\* what the configuration file f gives for a protocol
ConfigIn(f, p) ==
    IF f \in {"base", "single"} \/ p = "icmp" THEN ConfigOf(p)
    ELSE IF f = "duplicates"
         THEN [ConfigOf(p) EXCEPT !.rng = IF p = "tcp" THEN <<"2", "2", ",", "2", "2">>
                                          ELSE <<"5", "3", ",", "5", "3">>]
    ELSE [ConfigOf(p) EXCEPT !.rng = IF p = "tcp" THEN <<>> ELSE <<",">>]

\* the configurations a target is started with
Configs == {{"tcp"}, {"udp"}, {"icmp"}}

\* Target.protos, filled by setPorts; a missing key reads as the zero protocol
protos == [p \in Protos |->
              IF p \in configured THEN ConfigIn(file, p)
              ELSE [period |-> "", rng |-> <<>>, expected |-> <<>>]]

\* readPortsRange of the expressions of the configuration, computed once
ParsedConfig == [f \in ConfigFiles |-> [p \in Protos |->
                    [rng |-> readPortsRange(ConfigIn(f, p).rng),
                     expected |-> readPortsRange(ConfigIn(f, p).expected)]]]

\* Target.portsToScan, filled by setPorts with readPortsRange(rng)
portsToScan == [p \in configured |-> ParsedConfig[file][p].rng.ports]

\* getWantedProto: the protocols with a period
getWantedProto == {p \in Protos : protos[p].period # ""}

\* capacity of the trigger channel
TriggerCap == 100

\* channels with no room at all
ChanCapNone == Workers - Workers

\* capacity of jobsChan, resChan and postScan
ChanCap == 3 * Workers

(***************************************************************************)
(* New, setPorts, getDuration                                              *)
(***************************************************************************)
\* the addresses net.ParseIP parses
ValidIPs == {"10.0.0.1", "10.0.0.2"}

\* net.ParseIP(ip) # nil
ParseIP(ip) == ip \in ValidIPs

\* time.ParseDuration returns no error: here for digits followed by h, m or s
ParseDurationOk(s) ==
    /\ Len(s) >= 2
    /\ s[Len(s)] \in {"h", "m", "s"}
    /\ \A i \in 1..(Len(s) - 1) : IsDigit(s[i])

\* getDuration returns an error
getDurationErr(period) ==
    IF \E i \in 1..Len(period) : period[i] \in {"h", "m", "s"}
    THEN ~ParseDurationOk(period)
    ELSE Atoi(Split(period, "d")[1]).err

\* the target before the options are applied
NewTarget(name, ip, workers) ==
    [name |-> name, ip |-> ip, workers |-> workers,
     protos |-> EmptyMap, portsToScan |-> EmptyMap]

\* setPorts: the error it returns and the target it leaves
setPorts(t, proto, period, rng, exp) ==
    IF ~StringInSlice(proto, <<"udp", "tcp", "icmp">>) THEN [err |-> TRUE, t |-> t]
    ELSE LET ports == readPortsRange(rng)
             t1 == [t EXCEPT !.protos = MapPut(t.protos, proto,
                                            [period |-> period, rng |-> rng,
                                             expected |-> exp])]
         IN  IF ports.err
             THEN [err |-> TRUE, t |-> t1]
             ELSE [err |-> FALSE,
                   t |-> [t1 EXCEPT !.portsToScan =
                                        MapPut(t.portsToScan, proto, ports.ports)]]

\* New: the loop over the options, each a call of setPorts
RECURSIVE NewOptions(_, _)
NewOptions(t, o) ==
    IF o = <<>> THEN [err |-> FALSE, t |-> t]
    ELSE LET r == setPorts(t, o[1].proto, o[1].period, o[1].rng, o[1].expected)
         IN  IF r.err THEN r ELSE NewOptions(r.t, Tail(o))

\* scan.New: the error, and the target when there is none
New(name, ip, workers, o) ==
    IF ~ParseIP(ip) THEN [err |-> TRUE, t |-> <<>>]
    ELSE LET r == NewOptions(NewTarget(name, ip, workers), o)
         IN  IF r.err THEN [err |-> TRUE, t |-> <<>>] ELSE r

(***************************************************************************)
(* createJobs                                                              *)
(***************************************************************************)
\* the loop without the break on an empty slice
RECURSIVE createJobsLoopNoBreak(_, _, _, _, _, _, _, _)
createJobsLoopNoBreak(ip, workers, ports, proto, i, idx, size, jobs) ==
    LET defSize == Len(ports) \div workers
        numBigger == Len(ports) - defSize * workers
        size1 == IF i = numBigger THEN size - 1 ELSE size
    IN  IF i >= workers THEN jobs
        ELSE createJobsLoopNoBreak(ip, workers, ports, proto, i + 1, idx + size1, size1,
                 Append(jobs, [id |-> 0, jobCount |-> 0, ip |-> ip,
                               protocol |-> proto,
                               ports |-> SubSeq(ports, idx + 1, idx + size1)]))

\* the loop of createJobs, for a target with the ip, the workers and the ports
RECURSIVE createJobsLoop(_, _, _, _, _, _, _, _)
createJobsLoop(ip, workers, ports, proto, i, idx, size, jobs) ==
    LET defSize == Len(ports) \div workers
        numBigger == Len(ports) - defSize * workers
        size1 == IF i = numBigger THEN size - 1 ELSE size
    IN  IF i >= workers THEN jobs
        ELSE IF i = numBigger /\ size1 = 0 THEN jobs
        ELSE createJobsLoop(ip, workers, ports, proto, i + 1, idx + size1, size1,
                 Append(jobs, [id |-> 0, jobCount |-> 0, ip |-> ip,
                               protocol |-> proto,
                               ports |-> SubSeq(ports, idx + 1, idx + size1)]))

\* createJobs of a target with the ip, the workers and the map portsToScan
createJobsOf(ip, workers, toScan, proto) ==
    IF proto \notin DOMAIN toScan THEN [err |-> TRUE, jobs |-> <<>>]
    ELSE IF proto = "icmp"
    THEN [err |-> FALSE,
          jobs |-> <<[id |-> 0, jobCount |-> 0, ip |-> ip,
                      protocol |-> proto, ports |-> <<>>]>>]
    ELSE [err |-> FALSE,
          jobs |-> createJobsLoop(ip, workers, toScan[proto], proto, 0, 0,
                       (Len(toScan[proto]) \div workers) + 1, <<>>)]

\* createJobs of the target whose scan engine is modelled
createJobs(proto) == createJobsOf(TargetIP[ScanTarget], Workers, portsToScan, proto)

(***************************************************************************)
(* checkAccordance                                                         *)
(***************************************************************************)
\* the elements of s that are in list, in the order of s
RECURSIVE OnesIn(_, _)
OnesIn(s, list) ==
    IF s = <<>> THEN <<>>
    ELSE (IF StringInSlice(Head(s), list) THEN <<Head(s)>> ELSE <<>>)
         \o OnesIn(Tail(s), list)

\* the elements of s that are not in list, in the order of s
RECURSIVE NotIn(_, _)
NotIn(s, list) ==
    IF s = <<>> THEN <<>>
    ELSE (IF StringInSlice(Head(s), list) THEN <<>> ELSE <<Head(s)>>)
         \o NotIn(Tail(s), list)

\* checkAccordance, given what readPortsRange returned for the expected expression
checkAccordanceOf(expected, open) ==
    IF expected.err THEN [unexpected |-> <<>>, closed |-> <<>>, err |-> TRUE]
    ELSE [unexpected |-> NotIn(open, expected.ports),
          closed |-> NotIn(expected.ports, open),
          err |-> FALSE]

checkAccordance(proto, open) ==
    checkAccordanceOf(IF proto \in configured THEN ParsedConfig[file][proto].expected
                      ELSE readPortsRange(protos[proto].expected),
                      open)

(***************************************************************************)
(* Package scan: ticker, Run, worker, receiver.                            *)
(***************************************************************************)
\* setTimeTo, under timeMutex
setTimeTo(proto, time) == startTime' = [startTime EXCEPT ![proto] = time]

\* one access to the map Target.startTime: the goroutine, read or write, whether
\* timeMutex is held, and for a write whether the zero instant is written
Access(task, op, locked, zero) ==
    [task |-> task, op |-> op, locked |-> locked, zero |-> zero]

\* ticker: t.setTimeTo(proto, time.Now()), at start-up and at every tick
tickerSetTime(proto) ==
    /\ ~panicked
    /\ tickerPc[proto] = "tick"
    /\ ticks[proto] < MaxTicks
    /\ setTimeTo(proto, clock)
    /\ accesses' = accesses \cup {Access("ticker", "write", TRUE, FALSE)}
    /\ clock' = clock + 1
    /\ ticks' = [ticks EXCEPT ![proto] = @ + 1]
    /\ tickerPc' = [tickerPc EXCEPT ![proto] = "send"]
    /\ UNCHANGED <<file, configured, trigger, runPc, runJobs, nextId, jobsChan, resChan,
                   postScan, workerJob, openPorts, jobsStarted, rcvPc, rcvOut, sent,
                   started, emitted>>
    /\ UNCHANGED metricVars
    /\ UNCHANGED <<hpc, hres, hlocal, hret, panicked, calls, handled>>
    /\ UNCHANGED <<arg, ret>>

\* ticker: trigger <- proto
tickerSend(proto) ==
    /\ ~panicked
    /\ tickerPc[proto] = "send"
    /\ Len(trigger) < TriggerCap
    /\ trigger' = Append(trigger, proto)
    /\ tickerPc' = [tickerPc EXCEPT ![proto] = "tick"]
    /\ UNCHANGED <<file, configured, startTime, clock, ticks, runPc, runJobs, nextId,
                   jobsChan, resChan, postScan, workerJob, openPorts, jobsStarted,
                   rcvPc, rcvOut, sent, started, emitted>>
    /\ UNCHANGED metricVars
    /\ UNCHANGED <<hpc, hres, hlocal, hret, panicked, calls, handled>>
    /\ UNCHANGED <<accesses, arg, ret>>

\* a Run that gives every job the number of workers as its job count
RunStampWorkers(jobs, jobID) ==
    [i \in 1..Len(jobs) |-> [jobs[i] EXCEPT !.id = jobID, !.jobCount = Workers]]

\* the jobs of one trigger, each with the scan id and the job count
RunStamp(jobs, jobID) ==
    [i \in 1..Len(jobs) |-> [jobs[i] EXCEPT !.id = jobID, !.jobCount = Len(jobs)]]

\* Run: case proto := <-trigger, up to the first send on jobsChan
RunTrigger ==
    /\ ~panicked
    /\ runPc = "select"
    /\ trigger # <<>>
    /\ LET proto == Head(trigger)
           made == createJobs(proto)
       IN  /\ trigger' = Tail(trigger)
           /\ accesses' = accesses \cup {Access("Run", "read", FALSE, FALSE)}
           /\ IF startTime[proto] = 0
              THEN \* "a scan already started"
                   UNCHANGED <<runPc, runJobs, nextId, started>>
              ELSE IF made.err
              THEN /\ runPc' = "returned"
                   /\ UNCHANGED <<runJobs, nextId, started>>
              ELSE /\ runJobs' = RunStamp(made.jobs, nextId)
                   /\ nextId' = nextId + 1
                   /\ runPc' = IF made.jobs = <<>> THEN "select" ELSE "send"
                   /\ started' = Append(started, [id |-> nextId, protocol |-> proto,
                                                  jobCount |-> Len(made.jobs)])
    /\ UNCHANGED <<file, configured, startTime, clock, ticks, tickerPc, jobsChan, resChan,
                   postScan, workerJob, openPorts, jobsStarted, rcvPc, rcvOut, sent,
                   emitted>>
    /\ UNCHANGED metricVars
    /\ UNCHANGED <<hpc, hres, hlocal, hret, panicked, calls, handled>>
    /\ UNCHANGED <<arg, ret>>

\* Run: jobsChan <- j
RunSend ==
    /\ ~panicked
    /\ runPc = "send"
    /\ Len(jobsChan) < ChanCap
    /\ jobsChan' = Append(jobsChan, Head(runJobs))
    /\ runJobs' = Tail(runJobs)
    /\ runPc' = IF Tail(runJobs) = <<>> THEN "select" ELSE "send"
    /\ UNCHANGED <<file, configured, startTime, clock, ticks, tickerPc, trigger, nextId,
                   resChan, postScan, workerJob, openPorts, jobsStarted, rcvPc,
                   rcvOut, sent, started, emitted>>
    /\ UNCHANGED metricVars
    /\ UNCHANGED <<hpc, hres, hlocal, hret, panicked, calls, handled>>
    /\ UNCHANGED <<accesses, arg, ret>>

\* worker: case job := <-jobsChan
workerTake(w) ==
    /\ ~panicked
    /\ workerJob[w] = <<>>
    /\ jobsChan # <<>>
    /\ workerJob' = [workerJob EXCEPT ![w] = <<Head(jobsChan)>>]
    /\ jobsChan' = Tail(jobsChan)
    /\ UNCHANGED <<file, configured, startTime, clock, ticks, tickerPc, trigger, runPc,
                   runJobs, nextId, resChan, postScan, openPorts, jobsStarted, rcvPc,
                   rcvOut, sent, started, emitted>>
    /\ UNCHANGED metricVars
    /\ UNCHANGED <<hpc, hres, hlocal, hret, panicked, calls, handled>>
    /\ UNCHANGED <<accesses, arg, ret>>

\* what a probe of one port or host can report
ProbeOutcomes(proto) ==
    IF proto = "tcp" THEN {"open", "closed"} ELSE {"open", "closed", "error"}

\* the ports of the job whose probe reported open, in the order of the job
RECURSIVE OpenOf(_, _)
OpenOf(ports, probe) ==
    IF ports = <<>> THEN <<>>
    ELSE (IF probe[1] = "open" THEN <<Head(ports)>> ELSE <<>>)
         \o OpenOf(Tail(ports), Tail(probe))

\* the partial result of a job whose probes of the ports reported probe
workerResult(job, probe) ==
    [id |-> job.id, ip |-> job.ip, jobCount |-> job.jobCount, protocol |-> job.protocol,
     ports |-> IF job.protocol = "icmp"
               THEN (IF probe[1] = "open" THEN <<<<"1">>>> ELSE <<>>)
               ELSE OpenOf(job.ports, probe)]

\* does the worker send the partial result of the job
workerSends(job, probe) == ~(job.protocol = "icmp" /\ probe[1] = "error")

\* worker: the scan of the job it holds, then resChan <- res
workerScan(w) ==
    /\ ~panicked
    /\ workerJob[w] # <<>>
    /\ LET job == workerJob[w][1]
           n == IF job.protocol = "icmp" THEN 1 ELSE Len(job.ports)
       IN  \E probe \in [1..n -> ProbeOutcomes(job.protocol)] :
               IF workerSends(job, probe)
               THEN /\ Len(resChan) < ChanCap
                    /\ resChan' = Append(resChan, workerResult(job, probe))
                    /\ sent' = MapPut(sent, job.id, MapGet(sent, job.id, {})
                                           \cup Range(workerResult(job, probe).ports))
               ELSE UNCHANGED <<resChan, sent>>
    /\ workerJob' = [workerJob EXCEPT ![w] = <<>>]
    /\ UNCHANGED <<file, configured, startTime, clock, ticks, tickerPc, trigger, runPc,
                   runJobs, nextId, jobsChan, postScan, openPorts, jobsStarted, rcvPc,
                   rcvOut, started, emitted>>
    /\ UNCHANGED metricVars
    /\ UNCHANGED <<hpc, hres, hlocal, hret, panicked, calls, handled>>
    /\ UNCHANGED <<accesses, arg, ret>>

\* receiver: the ResMsg of a finished scan
receiverResults(name, proto, ip, open) ==
    LET acc == IF proto # "icmp" THEN checkAccordance(proto, open)
               ELSE [unexpected |-> <<>>, closed |-> <<>>, err |-> FALSE]
    IN  [Name |-> name, IP |-> ip, Protocol |-> proto, OpenPorts |-> open,
         UnexpectedPorts |-> acc.unexpected, ClosedPorts |-> acc.closed]

\* receiver: the entries of openPorts and jobsStarted after a partial result
receiverCount(res) == MapPut(jobsStarted, res.id, MapGet(jobsStarted, res.id, 0) + 1)

\* a receiver that keeps the ports of the last partial result only
receiverPortsAssign(res) == MapPut(openPorts, res.id, res.ports)

receiverPorts(res) ==
    MapPut(openPorts, res.id, MapGet(openPorts, res.id, <<>>) \o res.ports)

\* a receiver that takes a scan as finished at its first partial result
receiverCompleteFirst(count, res) == count >= 1

\* receiver: if jobsStarted[res.id] == res.jobCount
receiverComplete(count, res) == count = res.jobCount

\* receiver: case res := <-resChan, up to the send on postScan
receiver ==
    /\ ~panicked
    /\ rcvPc = "select"
    /\ resChan # <<>>
    /\ LET res == Head(resChan)
       IN  /\ resChan' = Tail(resChan)
           /\ jobsStarted' = receiverCount(res)
           /\ openPorts' = receiverPorts(res)
           /\ IF receiverComplete(jobsStarted'[res.id], res)
              THEN /\ setTimeTo(res.protocol, 0)
                   /\ accesses' = accesses
                          \cup (IF res.protocol # "icmp"
                                THEN {Access("receiver", "read", FALSE, FALSE)}
                                ELSE {})
                          \cup {Access("receiver", "write", TRUE, TRUE)}
                   /\ rcvOut' = <<[id |-> res.id,
                                   res |-> receiverResults(ScanTarget, res.protocol,
                                                           res.ip, openPorts'[res.id])]>>
                   /\ rcvPc' = "send"
              ELSE UNCHANGED <<startTime, rcvOut, rcvPc, accesses>>
    /\ UNCHANGED <<file, configured, clock, ticks, tickerPc, trigger, runPc, runJobs,
                   nextId, jobsChan, postScan, workerJob, sent, started, emitted>>
    /\ UNCHANGED metricVars
    /\ UNCHANGED <<hpc, hres, hlocal, hret, panicked, calls, handled>>
    /\ UNCHANGED <<arg, ret>>

\* receiver: postScan <- results
receiverSend ==
    /\ ~panicked
    /\ rcvPc = "send"
    /\ Len(postScan) < ChanCap
    /\ postScan' = Append(postScan, rcvOut[1].res)
    /\ emitted' = Append(emitted, rcvOut[1])
    /\ rcvOut' = <<>>
    /\ rcvPc' = "select"
    /\ UNCHANGED <<file, configured, startTime, clock, ticks, tickerPc, trigger, runPc,
                   runJobs, nextId, jobsChan, resChan, workerJob, openPorts,
                   jobsStarted, sent, started>>
    /\ UNCHANGED metricVars
    /\ UNCHANGED <<hpc, hres, hlocal, hret, panicked, calls, handled>>
    /\ UNCHANGED <<accesses, arg, ret>>

(***************************************************************************)
(* Package metrics: Handle, icmpNotResponding, readSet, wipeSet, writeSet. *)
(***************************************************************************)
NoRes == [Name |-> "", IP |-> "", Protocol |-> "", OpenPorts |-> <<>>,
          UnexpectedPorts |-> <<>>, ClosedPorts |-> <<>>]

\* the locals of Handle, icmpNotResponding and writeSet: alreadyNotResponding, index,
\* the length of the range, the items left to write, prev; and, as history, what the
\* sink held when the call began: prior (the open ports of the outcome before),
\* pre (the stored set), preList and preGauge (the down-host list and gauge)
NoLocal == [already |-> FALSE, index |-> 0, n |-> 0, items |-> <<>>, prev |-> {},
            prior |-> {}, pre |-> {}, preList |-> <<>>, preGauge |-> 0]

\* setName := res.IP + "/" + res.Protocol
setName(res) == <<res.IP, res.Protocol>>

\* gauges labelled with the protocol only
LabelsNoName(res) == <<res.Protocol, "">>

\* the label values of the gauges of an outcome
Labels(res) == <<res.Protocol, res.Name>>

\* common.CompareStringSlices: the number of items that differ between the two
CompareStringSlices(prev, open) ==
    Cardinality((prev \ Range(open)) \cup (Range(open) \ prev))

\* a Handle that returns nil whatever the store answered
HandleReturnNil(c, err) ==
    /\ hpc' = [hpc EXCEPT ![c] = "idle"]
    /\ hret' = [hret EXCEPT ![c] = "nil"]
    /\ hres' = [hres EXCEPT ![c] = NoRes]
    /\ hlocal' = [hlocal EXCEPT ![c] = NoLocal]

\* the return of Handle to its caller, which loops (sendResults); the locals die
HandleReturn(c, err) ==
    /\ hpc' = [hpc EXCEPT ![c] = "idle"]
    /\ hret' = [hret EXCEPT ![c] = IF err THEN "error" ELSE "nil"]
    /\ hres' = [hres EXCEPT ![c] = NoRes]
    /\ hlocal' = [hlocal EXCEPT ![c] = NoLocal]

\* Handle, lines 83-99: the protocol switch; for icmp the membership test of
\* icmpNotResponding under the mutex of this call, else the three gauges
Handle(c) ==
    /\ ~panicked
    /\ hpc[c] = "Handle"
    /\ LET res == hres[c]
       IN  IF res.Protocol = "icmp"
           THEN /\ hlocal' = [hlocal EXCEPT ![c].already =
                                      StringInSlice(res.IP, notRespondingList),
                                  ![c].preList = notRespondingList,
                                  ![c].preGauge = numOfDownTargets]
                /\ hpc' = [hpc EXCEPT ![c] = "icmpNotResponding"]
                /\ UNCHANGED <<unexpectedGauge, openGauge, closedGauge, handled>>
           ELSE /\ unexpectedGauge' =
                       MapPut(unexpectedGauge, Labels(res), Len(res.UnexpectedPorts))
                /\ openGauge' = MapPut(openGauge, Labels(res), Len(res.OpenPorts))
                /\ closedGauge' = MapPut(closedGauge, Labels(res), Len(res.ClosedPorts))
                /\ hlocal' = [hlocal EXCEPT ![c].prior = handled[setName(res)],
                                             ![c].pre = rdb[setName(res)]]
                /\ handled' = [handled EXCEPT ![setName(res)] = Range(res.OpenPorts)]
                /\ hpc' = [hpc EXCEPT ![c] = "readSet"]
    /\ UNCHANGED scanVars
    /\ UNCHANGED <<numOfDownTargets, notRespondingList, diffGauge, rdb, rdbUp>>
    /\ UNCHANGED <<hres, hret, panicked, calls>>
    /\ UNCHANGED <<accesses, arg, ret>>

\* icmpNotResponding, lines 153-156 and 168-171: the gauge follows the transition
icmpNotResponding(c) ==
    /\ ~panicked
    /\ hpc[c] = "icmpNotResponding"
    /\ LET isResponding == Len(hres[c].OpenPorts) # 0
           alreadyNotResponding == hlocal[c].already
       IN  IF isResponding /\ alreadyNotResponding
           THEN /\ numOfDownTargets' = numOfDownTargets - 1
                /\ hpc' = [hpc EXCEPT ![c] = "icmpRange"]
                /\ UNCHANGED <<hret, hres, hlocal>>
           ELSE IF ~isResponding /\ ~alreadyNotResponding
           THEN /\ numOfDownTargets' = numOfDownTargets + 1
                /\ hpc' = [hpc EXCEPT ![c] = "icmpAppend"]
                /\ UNCHANGED <<hret, hres, hlocal>>
           ELSE /\ HandleReturn(c, FALSE)
                /\ UNCHANGED numOfDownTargets
    /\ UNCHANGED scanVars
    /\ UNCHANGED <<notRespondingList, unexpectedGauge, openGauge, closedGauge,
                   diffGauge, rdb, rdbUp>>
    /\ UNCHANGED <<panicked, calls, handled>>
    /\ UNCHANGED <<accesses, arg, ret>>

\* icmpNotResponding, line 157: the range expression is evaluated once
icmpRange(c) ==
    /\ ~panicked
    /\ hpc[c] = "icmpRange"
    /\ hlocal' = [hlocal EXCEPT ![c].n = Len(notRespondingList), ![c].index = 0]
    /\ hpc' = [hpc EXCEPT ![c] = "icmpLoop"]
    /\ UNCHANGED scanVars
    /\ UNCHANGED metricVars
    /\ UNCHANGED <<hres, hret, panicked, calls, handled>>
    /\ UNCHANGED <<accesses, arg, ret>>

\* icmpNotResponding, lines 157-158: one iteration, the read of
\* notRespondingList[index]; an index past the end of the list panics
icmpLoop(c) ==
    /\ ~panicked
    /\ hpc[c] = "icmpLoop"
    /\ LET index == hlocal[c].index
       IN  IF index >= hlocal[c].n
           THEN /\ HandleReturn(c, FALSE)
                /\ UNCHANGED panicked
           ELSE IF index >= Len(notRespondingList)
           THEN /\ panicked' = TRUE
                /\ UNCHANGED <<hpc, hret, hres, hlocal>>
           ELSE IF notRespondingList[index + 1] = hres[c].IP
           THEN /\ hpc' = [hpc EXCEPT ![c] = "icmpRemove"]
                /\ UNCHANGED <<hret, hres, hlocal, panicked>>
           ELSE /\ hlocal' = [hlocal EXCEPT ![c].index = index + 1]
                /\ UNCHANGED <<hpc, hret, hres, panicked>>
    /\ UNCHANGED scanVars
    /\ UNCHANGED metricVars
    /\ UNCHANGED <<calls, handled>>
    /\ UNCHANGED <<accesses, arg, ret>>

\* the list without the element at index: the last element takes its place
RemoveAt(list, index) ==
    SubSeq([list EXCEPT ![index + 1] = list[Len(list)]], 1, Len(list) - 1)

\* icmpNotResponding, lines 160-164: the removal, under the mutex of this call
icmpRemove(c) ==
    /\ ~panicked
    /\ hpc[c] = "icmpRemove"
    /\ LET index == hlocal[c].index
       IN  IF index >= Len(notRespondingList)
           THEN /\ panicked' = TRUE
                /\ UNCHANGED <<notRespondingList, hpc, hlocal>>
           ELSE /\ notRespondingList' = RemoveAt(notRespondingList, index)
                /\ hlocal' = [hlocal EXCEPT ![c].index = index + 1]
                /\ hpc' = [hpc EXCEPT ![c] = "icmpLoop"]
                /\ UNCHANGED panicked
    /\ UNCHANGED scanVars
    /\ UNCHANGED <<numOfDownTargets, unexpectedGauge, openGauge, closedGauge,
                   diffGauge, rdb, rdbUp>>
    /\ UNCHANGED <<hres, hret, calls, handled>>
    /\ UNCHANGED <<accesses, arg, ret>>

\* icmpNotResponding, lines 173-175: the append, under the mutex of this call
icmpAppend(c) ==
    /\ ~panicked
    /\ hpc[c] = "icmpAppend"
    /\ notRespondingList' = Append(notRespondingList, hres[c].IP)
    /\ HandleReturn(c, FALSE)
    /\ UNCHANGED scanVars
    /\ UNCHANGED <<numOfDownTargets, unexpectedGauge, openGauge, closedGauge,
                   diffGauge, rdb, rdbUp>>
    /\ UNCHANGED <<panicked, calls, handled>>
    /\ UNCHANGED <<accesses, arg, ret>>

\* Handle, lines 102-108: readSet, then the diff gauge; a dead store fails
readSet(c) ==
    /\ ~panicked
    /\ hpc[c] = "readSet"
    /\ IF ~rdbUp
       THEN /\ HandleReturn(c, TRUE)
            /\ UNCHANGED diffGauge
       ELSE LET prev == rdb[setName(hres[c])]
            IN  /\ diffGauge' = MapPut(diffGauge, Labels(hres[c]),
                                    CompareStringSlices(prev, hres[c].OpenPorts))
                /\ hlocal' = [hlocal EXCEPT ![c].prev = prev]
                /\ hpc' = [hpc EXCEPT ![c] = "wipeSet"]
                /\ UNCHANGED <<hret, hres>>
    /\ UNCHANGED scanVars
    /\ UNCHANGED <<numOfDownTargets, notRespondingList, unexpectedGauge, openGauge,
                   closedGauge, rdb, rdbUp>>
    /\ UNCHANGED <<panicked, calls, handled>>
    /\ UNCHANGED <<accesses, arg, ret>>

\* Handle, line 110: wipeSet; the error of Del is dropped
wipeSet(c) ==
    /\ ~panicked
    /\ hpc[c] = "wipeSet"
    /\ rdb' = IF ~rdbUp THEN rdb ELSE [rdb EXCEPT ![setName(hres[c])] = {}]
    /\ hlocal' = [hlocal EXCEPT ![c].items = hres[c].OpenPorts]
    /\ hpc' = [hpc EXCEPT ![c] = "writeSet"]
    /\ UNCHANGED scanVars
    /\ UNCHANGED <<numOfDownTargets, notRespondingList, unexpectedGauge, openGauge,
                   closedGauge, diffGauge, rdbUp>>
    /\ UNCHANGED <<hres, hret, panicked, calls, handled>>
    /\ UNCHANGED <<accesses, arg, ret>>

\* Handle, lines 111-116 with writeSet: one SAdd, or the end of the loop
writeSet(c) ==
    /\ ~panicked
    /\ hpc[c] = "writeSet"
    /\ IF hlocal[c].items = <<>>
       THEN /\ HandleReturn(c, FALSE)
            /\ UNCHANGED rdb
       ELSE IF ~rdbUp
       THEN /\ HandleReturn(c, TRUE)
            /\ UNCHANGED rdb
       ELSE /\ rdb' = [rdb EXCEPT ![setName(hres[c])] = @ \cup {Head(hlocal[c].items)}]
            /\ hlocal' = [hlocal EXCEPT ![c].items = Tail(@)]
            /\ UNCHANGED <<hpc, hret, hres>>
    /\ UNCHANGED scanVars
    /\ UNCHANGED <<numOfDownTargets, notRespondingList, unexpectedGauge, openGauge,
                   closedGauge, diffGauge, rdbUp>>
    /\ UNCHANGED <<panicked, calls, handled>>
    /\ UNCHANGED <<accesses, arg, ret>>

\* the Redis server goes down or comes back
storeFlip ==
    /\ ~panicked
    /\ rdbUp' = ~rdbUp
    /\ UNCHANGED scanVars
    /\ UNCHANGED <<numOfDownTargets, notRespondingList, unexpectedGauge, openGauge,
                   closedGauge, diffGauge, rdb>>
    /\ UNCHANGED <<hpc, hres, hlocal, hret, panicked, calls, handled>>
    /\ UNCHANGED <<accesses, arg, ret>>

\* sendResults: case res := <-resChan, then t.metrics.ReceiveResults(res)
sendResults ==
    /\ ~panicked
    /\ hpc[ScanTarget] = "idle"
    /\ postScan # <<>>
    /\ hres' = [hres EXCEPT ![ScanTarget] = Head(postScan)]
    /\ hlocal' = [hlocal EXCEPT ![ScanTarget] = NoLocal]
    /\ hpc' = [hpc EXCEPT ![ScanTarget] = "Handle"]
    /\ postScan' = Tail(postScan)
    /\ UNCHANGED <<file, configured, startTime, clock, ticks, tickerPc, trigger, runPc,
                   runJobs, nextId, jobsChan, resChan, workerJob, openPorts,
                   jobsStarted, rcvPc, rcvOut, sent, started, emitted>>
    /\ UNCHANGED metricVars
    /\ UNCHANGED <<hret, panicked, calls, handled>>
    /\ UNCHANGED <<accesses, arg, ret>>

(***************************************************************************)
(* The scan engine of one target, with its metrics sink.                   *)
(***************************************************************************)
Keys == {<<TargetIP[t], p>> : t \in Targets, p \in Protos}

InitMetrics ==
    /\ numOfDownTargets = 0
    /\ notRespondingList = <<>>
    /\ unexpectedGauge = EmptyMap
    /\ openGauge = EmptyMap
    /\ closedGauge = EmptyMap
    /\ diffGauge = EmptyMap
    /\ rdb = [k \in Keys |-> {}]
    /\ rdbUp = TRUE
    /\ hpc = [c \in Targets |-> "idle"]
    /\ hres = [c \in Targets |-> NoRes]
    /\ hlocal = [c \in Targets |-> NoLocal]
    /\ hret = [c \in Targets |-> "nil"]
    /\ panicked = FALSE
    /\ calls = 0
    /\ handled = [k \in Keys |-> {}]

\* the engine of a target at the start of Run
InitEngine ==
    /\ configured \in Configs
    /\ startTime = [p \in Protos |-> 0]
    /\ clock = 1
    /\ ticks = [p \in Protos |-> 0]
    /\ tickerPc = [p \in Protos |-> IF p \in getWantedProto THEN "tick" ELSE "off"]
    /\ trigger = <<>>
    /\ runPc = "select"
    /\ runJobs = <<>>
    /\ nextId = 1
    /\ jobsChan = <<>>
    /\ resChan = <<>>
    /\ postScan = <<>>
    /\ workerJob = [w \in 1..Workers |-> <<>>]
    /\ openPorts = EmptyMap
    /\ jobsStarted = EmptyMap
    /\ rcvPc = "select"
    /\ rcvOut = <<>>
    /\ sent = EmptyMap
    /\ started = <<>>
    /\ emitted = <<>>
    /\ accesses = {}

InitScan == file = "base" /\ InitEngine

\* no function is called on its own
InitNoCall ==
    /\ arg = <<>>
    /\ ret = <<>>

Init == InitScan /\ InitMetrics /\ InitNoCall

HandleStep(c) ==
    \/ Handle(c)
    \/ icmpNotResponding(c)
    \/ icmpRange(c)
    \/ icmpLoop(c)
    \/ icmpRemove(c)
    \/ icmpAppend(c)
    \/ readSet(c)
    \/ wipeSet(c)
    \/ writeSet(c)

\* the steps of the goroutines of the target
NextScan ==
    \/ \E p \in Protos : tickerSetTime(p)
    \/ \E p \in Protos : tickerSend(p)
    \/ RunTrigger
    \/ RunSend
    \/ \E w \in 1..Workers : workerTake(w)
    \/ \E w \in 1..Workers : workerScan(w)
    \/ receiver
    \/ receiverSend
    \/ sendResults
    \/ HandleStep(ScanTarget)

Next ==
    \/ NextScan
    \/ storeFlip

Spec == Init /\ [][Next]_vars

\* the goroutines are scheduled: while one of them can take a step, a step is
\* taken. With the ticks bounded every run of the goroutines ends, so this is as
\* strong as the fairness of each goroutine on its own.
Fairness == WF_vars(NextScan)

FairSpec == Spec /\ Fairness

\* the target is built from a configuration file whose ranges name a port twice,
\* or give no port
InitRanges ==
    /\ file \in {"duplicates", "empty"}
    /\ InitEngine
    /\ InitMetrics
    /\ InitNoCall

SpecRanges == InitRanges /\ [][Next]_vars

(***************************************************************************)
(* The metrics sink under the forwarders of several targets: every target  *)
(* has its own sendResults goroutine, which calls Handle with the outcomes *)
(* of its receiver.                                                        *)
(***************************************************************************)
\* the orders in which the ports of a set can arrive at the receiver
RECURSIVE Orders(_)
Orders(S) ==
    IF S = {} THEN {<<>>}
    ELSE UNION {{<<x>> \o o : o \in Orders(S \ {x})} : x \in S}

\* the open lists the receiver of a target can build for a protocol
OpenLists(proto) ==
    IF proto = "icmp" THEN {<<>>, <<<<"1">>>>}
    ELSE UNION {Orders(S) : S \in SUBSET Range(portsToScan[proto])}

\* the scan outcomes of a protocol the forwarder of target c can receive on postScan
Outcomes(c, proto) ==
    {receiverResults(c, proto, TargetIP[c], open) : open \in OpenLists(proto)}

\* sendResults of target c: an outcome of the protocol arrives, Handle is called
Call(c, proto) ==
    /\ ~panicked
    /\ hpc[c] = "idle"
    /\ calls < (IF proto = "icmp" THEN MaxCalls ELSE MaxStoreCalls)
    /\ \E res \in Outcomes(c, proto) : hres' = [hres EXCEPT ![c] = res]
    /\ hlocal' = [hlocal EXCEPT ![c] = NoLocal]
    /\ hpc' = [hpc EXCEPT ![c] = "Handle"]
    /\ calls' = calls + 1
    /\ UNCHANGED scanVars
    /\ UNCHANGED metricVars
    /\ UNCHANGED <<hret, panicked, handled>>
    /\ UNCHANGED <<accesses, arg, ret>>

\* the same, when no other Handle call is running
CallAlone(c, proto) ==
    /\ \A d \in Targets : hpc[d] = "idle"
    /\ Call(c, proto)

InitIdleScan ==
    /\ file = "base"
    /\ configured = Protos
    /\ startTime = [p \in Protos |-> 0]
    /\ clock = 1
    /\ ticks = [p \in Protos |-> 0]
    /\ tickerPc = [p \in Protos |-> "off"]
    /\ trigger = <<>>
    /\ runPc = "select"
    /\ runJobs = <<>>
    /\ nextId = 1
    /\ jobsChan = <<>>
    /\ resChan = <<>>
    /\ postScan = <<>>
    /\ workerJob = [w \in 1..Workers |-> <<>>]
    /\ openPorts = EmptyMap
    /\ jobsStarted = EmptyMap
    /\ rcvPc = "select"
    /\ rcvOut = <<>>
    /\ sent = EmptyMap
    /\ started = <<>>
    /\ emitted = <<>>
    /\ accesses = {}

InitSink == InitIdleScan /\ InitMetrics /\ InitNoCall

\* the steps of Handle for an icmp outcome
IcmpStep(c) ==
    \/ Handle(c)
    \/ icmpNotResponding(c)
    \/ icmpRange(c)
    \/ icmpLoop(c)
    \/ icmpRemove(c)
    \/ icmpAppend(c)

\* the steps of Handle for a tcp or udp outcome
StoreStep(c) ==
    \/ Handle(c)
    \/ readSet(c)
    \/ wipeSet(c)
    \/ writeSet(c)

NextDown ==
    \/ \E c \in Targets : Call(c, "icmp")
    \/ \E c \in Targets : IcmpStep(c)

\* icmp outcomes handled concurrently by the forwarders of the targets
SpecDown == InitSink /\ [][NextDown]_vars

NextDownSequential ==
    \/ \E c \in Targets : CallAlone(c, "icmp")
    \/ \E c \in Targets : IcmpStep(c)

\* icmp outcomes handled one after the other
SpecDownSequential == InitSink /\ [][NextDownSequential]_vars

NextStore ==
    \/ \E c \in Targets : Call(c, "tcp")
    \/ \E c \in Targets : StoreStep(c)
    \/ storeFlip

\* tcp outcomes handled concurrently by the forwarders of the targets
SpecStore == InitSink /\ [][NextStore]_vars

NextStoreSequential ==
    \/ \E c \in Targets : CallAlone(c, "tcp")
    \/ \E c \in Targets : StoreStep(c)
    \/ storeFlip

\* tcp outcomes handled one after the other
SpecStoreSequential == InitSink /\ [][NextStoreSequential]_vars

\* the protocols of the outcomes: Handle tells icmp from the others only, so tcp
\* stands for tcp and udp
SinkProtos == {"icmp", "tcp"}

\* sendResults of target c calls Handle with an outcome of either kind
CallSink(c, proto) ==
    /\ calls < MaxSinkCalls
    /\ Call(c, proto)

NextSink ==
    \/ \E c \in Targets : \E proto \in SinkProtos : CallSink(c, proto)
    \/ \E c \in Targets : HandleStep(c)
    \/ storeFlip

\* icmp and tcp outcomes handled concurrently by the forwarders of the targets
SpecSink == InitSink /\ [][NextSink]_vars

(***************************************************************************)
(* The scan engine of a udp target with one worker when its pipeline is    *)
(* loaded: the ticker has fired, the workers have not run yet, jobsChan is *)
(* full and Run waits to send one more job.                                *)
(***************************************************************************)
\* the cycles Run has created jobs for: those of a full jobsChan and one more
LoadedCycles == 3 * WorkersOf("single") + 1

\* the job of cycle i
LoadedJob(i) == RunStamp(createJobs("udp").jobs, i)[1]

InitLoaded ==
    /\ file = "single"
    /\ configured = {"udp"}
    /\ startTime = [p \in Protos |-> IF p = "udp" THEN LoadedCycles ELSE 0]
    /\ clock = LoadedCycles + 1
    /\ ticks = [p \in Protos |-> IF p = "udp" THEN MaxTicks ELSE 0]
    /\ tickerPc = [p \in Protos |-> IF p \in getWantedProto THEN "tick" ELSE "off"]
    /\ trigger = <<>>
    /\ runPc = "send"
    /\ runJobs = <<LoadedJob(LoadedCycles)>>
    /\ nextId = LoadedCycles + 1
    /\ jobsChan = [i \in 1..ChanCap |-> LoadedJob(i)]
    /\ resChan = <<>>
    /\ postScan = <<>>
    /\ workerJob = [w \in 1..Workers |-> <<>>]
    /\ openPorts = EmptyMap
    /\ jobsStarted = EmptyMap
    /\ rcvPc = "select"
    /\ rcvOut = <<>>
    /\ sent = EmptyMap
    /\ started = [i \in 1..LoadedCycles |->
                     [id |-> i, protocol |-> "udp",
                      jobCount |-> Len(createJobs("udp").jobs)]]
    /\ emitted = <<>>
    /\ accesses = {Access("ticker", "write", TRUE, FALSE),
                   Access("Run", "read", FALSE, FALSE)}
    /\ InitMetrics
    /\ InitNoCall

\* the steps of the goroutines from there; the outcomes are udp outcomes
NextLoadedScan ==
    \/ RunSend
    \/ \E w \in 1..Workers : workerTake(w)
    \/ \E w \in 1..Workers : workerScan(w)
    \/ receiver
    \/ receiverSend
    \/ sendResults
    \/ StoreStep(ScanTarget)

NextLoaded ==
    \/ NextLoadedScan
    \/ storeFlip

SpecLoaded == InitLoaded /\ [][NextLoaded]_vars

\* the goroutines are scheduled, as in FairSpec
FairnessLoaded == WF_vars(NextLoadedScan)

FairSpecLoaded == SpecLoaded /\ FairnessLoaded

(***************************************************************************)
(* Functions of package scan called on their own.                          *)
(***************************************************************************)
\* everything but the call
programVars == <<scanVars, metricVars, hpc, hres, hlocal, hret, panicked, calls,
                 handled, accesses>>

\* a call with arguments from S is about to be made; the engine is not started
InitCall(S) ==
    /\ InitIdleScan
    /\ InitMetrics
    /\ arg \in S
    /\ ret = <<>>

\* the sequences of length at most n of elements of S
SeqsUpTo(S, n) == UNION {[1..k -> S] : k \in 0..n}

\* the port lists setPorts can have stored: port strings, duplicates allowed
PortLists == SeqsUpTo({Itoa(22), Itoa(80)}, MaxPortsLen)

\* targets for createJobs: tcp or udp with a port list, or icmp (no ports)
CreateJobsArgs ==
    {[ip |-> TargetIP[ScanTarget], workers |-> w, proto |-> p,
      toScan |-> [q \in {p} |-> ports]] :
         w \in 1..MaxWorkers, p \in {"tcp", "udp"}, ports \in PortLists}
    \cup {[ip |-> TargetIP[ScanTarget], workers |-> w, proto |-> "icmp",
           toScan |-> [q \in {"icmp"} |-> <<>>]] : w \in 1..MaxWorkers}

\* t.createJobs(proto)
CallCreateJobs ==
    /\ ret = <<>>
    /\ ret' = <<createJobsOf(arg.ip, arg.workers, arg.toScan, arg.proto)>>
    /\ UNCHANGED <<programVars, arg>>

SpecCreateJobs == InitCall(CreateJobsArgs) /\ [][CallCreateJobs]_vars

\* expected expressions New accepts and readPortsRange parses:
\* "22,443", "22", "", "80-82", "22,22", "443,22,80"
ExpectedExprs ==
    {<<"2", "2", ",", "4", "4", "3">>,
     <<"2", "2">>,
     <<>>,
     <<"8", "0", "-", "8", "2">>,
     <<"2", "2", ",", "2", "2">>,
     <<"4", "4", "3", ",", "2", "2", ",", "8", "0">>}

\* the open lists the receiver can pass: any order, duplicates included
AccordanceArgs ==
    {[expected |-> e, open |-> o] :
         e \in ExpectedExprs,
         o \in SeqsUpTo({Itoa(22), Itoa(80), Itoa(443)}, MaxOpenLen)}

\* t.checkAccordance(proto, open), with t.protos[proto].expected = arg.expected
CallCheckAccordance ==
    /\ ret = <<>>
    /\ ret' = <<checkAccordanceOf(readPortsRange(arg.expected), arg.open)>>
    /\ UNCHANGED <<programVars, arg>>

SpecCheckAccordance == InitCall(AccordanceArgs) /\ [][CallCheckAccordance]_vars

\* the options WithPorts(proto, period, rng, expected) of a configuration file:
\* protocols tcp, udp, icmp, sctp; periods "10s", "1d", "x";
\* ranges "22,80", "x", "80-22"; expected "22", "2-x", ""
PortsOptions ==
    [proto : {"tcp", "udp", "icmp", "sctp"},
     period : {<<"1", "0", "s">>, <<"1", "d">>, <<"x">>},
     rng : {<<"2", "2", ",", "8", "0">>, <<"x">>, <<"8", "0", "-", "2", "2">>},
     expected : {<<"2", "2">>, <<"2", "-", "x">>, <<>>}]

NewArgs ==
    [name : {ScanTarget}, ip : {"10.0.0.1", "999.0.0.1"}, workers : {Workers},
     o : SeqsUpTo(PortsOptions, MaxOptions)]

\* scan.New(name, ip, workers, m, o...)
CallNew ==
    /\ ret = <<>>
    /\ ret' = <<New(arg.name, arg.ip, arg.workers, arg.o)>>
    /\ UNCHANGED <<programVars, arg>>

SpecNew == InitCall(NewArgs) /\ [][CallNew]_vars

\* range expressions: every string of at most MaxExprLen characters among 0, 1, 2,
\* the dash and the comma, and "all", "reserved", "22,80,1000-1002,reserved",
\* "65535", "65536", "1-65536", "1-2-3,8", "22,,22", "x"
RangeExprs ==
    SeqsUpTo({"0", "1", "2", "-", ","}, MaxExprLen)
    \cup {<<"a", "l", "l">>,
          <<"r", "e", "s", "e", "r", "v", "e", "d">>,
          <<"2", "2", ",", "8", "0", ",", "1", "0", "0", "0", "-", "1", "0", "0", "2",
            ",", "r", "e", "s", "e", "r", "v", "e", "d">>,
          <<"6", "5", "5", "3", "5">>,
          <<"6", "5", "5", "3", "6">>,
          <<"1", "-", "6", "5", "5", "3", "6">>,
          <<"1", "-", "2", "-", "3", ",", "8">>,
          <<"2", "2", ",", ",", "2", "2">>,
          <<"x">>}

\* readPortsRange(ranges)
CallReadPortsRange ==
    /\ ret = <<>>
    /\ ret' = <<readPortsRange(arg)>>
    /\ UNCHANGED <<programVars, arg>>

SpecReadPortsRange == InitCall(RangeExprs) /\ [][CallReadPortsRange]_vars

(***************************************************************************)
(* Properties of the scan engine.                                          *)
(***************************************************************************)
\* the position in started of the scan cycle with the id
StartIndex(id) == CHOOSE i \in 1..Len(started) : started[i].id = id

EmittedIds == {emitted[j].id : j \in 1..Len(emitted)}

\* the cycles of a protocol whose jobs Run created and whose outcome is not sent yet
InFlight(p) ==
    {i \in 1..Len(started) : started[i].protocol = p /\ started[i].id \notin EmittedIds}

StartedCount(p) == Cardinality({i \in 1..Len(started) : started[i].protocol = p})

EmittedCount(p) ==
    Cardinality({j \in 1..Len(emitted) : emitted[j].res.Protocol = p})

\* C1: for every protocol at most one scan cycle is in flight at any time: a trigger
\* taken while an earlier cycle has not been emitted creates no jobs.
C1_OneCycleInFlight == \A p \in Protos : Cardinality(InFlight(p)) <= 1

\* C2: the outcomes of a target are sent in the order in which their scan cycles
\* were started.
C2_EmittedInStartOrder ==
    \A i, j \in 1..Len(emitted) :
        i < j => StartIndex(emitted[i].id) < StartIndex(emitted[j].id)

\* Run takes a trigger of a protocol that has no scan cycle in flight
TakesIdleTrigger ==
    /\ runPc = "select"
    /\ trigger # <<>>
    /\ trigger' = Tail(trigger)
    /\ InFlight(Head(trigger)) = {}

\* C3: whatever probes and the store do, scanning goes on: a tick taken while no
\* cycle of its protocol is in flight starts a scan cycle, and the outcome of every
\* scan cycle that was started is eventually sent.
C3_NoWedge ==
    /\ [][TakesIdleTrigger => Len(started') = Len(started) + 1]_vars
    /\ \A p \in Protos : \A n \in 1..MaxTicks :
           (StartedCount(p) >= n) ~> (EmittedCount(p) >= n)

\* C4: once the receiver has sent the outcome of a scan id, neither openPorts nor
\* jobsStarted has an entry for that id.
C4_StateReleased ==
    \A id \in EmittedIds : id \notin DOMAIN openPorts /\ id \notin DOMAIN jobsStarted

\* C5: the open list of every outcome holds exactly the ports of the partial
\* results of its own scan id, whatever the order of arrival.
C5_OpenIsUnionOfPartials ==
    \A j \in 1..Len(emitted) :
        Range(emitted[j].res.OpenPorts) = MapGet(sent, emitted[j].id, {})

\* scan 2 was completed before scan 1, whose partial results came in reverse order
C5_Witness ==
    /\ Len(emitted) >= 2
    /\ emitted[1].id = 2
    /\ emitted[1].res.OpenPorts = <<Itoa(22)>>
    /\ emitted[2].id = 1
    /\ emitted[2].res.OpenPorts = <<Itoa(80), Itoa(22)>>

(***************************************************************************)
(* Properties of the metrics sink.                                         *)
(***************************************************************************)
InStore(c) == hpc[c] \in {"readSet", "wipeSet", "writeSet"}

\* C6: while Handle runs for a set name, the stored set is the one from before the
\* call or the open ports of the outcome, nothing in between.
C6_AtomicReplace ==
    \A c \in Targets :
        InStore(c) =>
            rdb[setName(hres[c])] \in {hlocal[c].pre, Range(hres[c].OpenPorts)}

\* what the return of an icmp call of c must have done to the down-host set
DownTransition(c) ==
    LET ip == hres[c].IP
        responding == hres[c].OpenPorts # <<>>
        wasDown == StringInSlice(ip, hlocal[c].preList)
        before == Range(hlocal[c].preList)
        after == Range(notRespondingList')
    IN  /\ (responding /\ wasDown) =>
               (ip \notin after /\ numOfDownTargets' = hlocal[c].preGauge - 1)
        /\ (~responding /\ ~wasDown) =>
               (ip \in after /\ numOfDownTargets' = hlocal[c].preGauge + 1)
        /\ (responding <=> ~wasDown) =>
               (notRespondingList' = hlocal[c].preList
                /\ numOfDownTargets' = hlocal[c].preGauge)
        /\ after \ {ip} = before \ {ip}

IcmpReturns(c) ==
    /\ hpc[c] \in {"icmpNotResponding", "icmpLoop", "icmpAppend"}
    /\ hpc'[c] = "idle"

\* C7: icmp outcomes handled one after another: every call completes, and at its
\* return the down-host set and the gauge have made the transition of the table.
C7_DownTransitions ==
    /\ [](~panicked)
    /\ [][\A c \in Targets : IcmpReturns(c) => DownTransition(c)]_vars

\* C8: the down gauge is the number of distinct addresses of the down-host list.
\* Stated for the states in which no Handle call is under way, the weakest reading
\* of "in every reachable state".
C8_GaugeIsCardinality ==
    (\A c \in Targets : hpc[c] = "idle") =>
        numOfDownTargets = Cardinality(Range(notRespondingList))

\* a step of the Handle call of c
Moves(c) == hpc'[c] # hpc[c] \/ hlocal'[c] # hlocal[c]

C10_DiffAgainstPrevious ==
    \A c \in Targets :
        hpc[c] = "wipeSet" =>
            /\ hlocal[c].prev = hlocal[c].prior
            /\ diffGauge[Labels(hres[c])] =
                   Cardinality((hlocal[c].prior \ Range(hres[c].OpenPorts))
                               \cup (Range(hres[c].OpenPorts) \ hlocal[c].prior))

\* the ports of the jobs, one job after the other
RECURSIVE JobPorts(_)
JobPorts(jobs) ==
    IF jobs = <<>> THEN <<>> ELSE Head(jobs).ports \o JobPorts(Tail(jobs))

Min(a, b) == IF a < b THEN a ELSE b

\* C11: createJobs cuts the port list of tcp and udp into min(workers, len) slices,
\* none empty, that give the list back when put end to end, the first len mod
\* workers of size len div workers + 1 and the others of size len div workers; for
\* icmp it gives one job without ports.
C11_JobsPartitionPorts ==
    ret # <<>> =>
        LET jobs == ret[1].jobs
            ports == arg.toScan[arg.proto]
            d == Len(ports) \div arg.workers
            r == Len(ports) % arg.workers
        IN  /\ ~ret[1].err
            /\ \A k \in 1..Len(jobs) :
                   jobs[k].ip = arg.ip /\ jobs[k].protocol = arg.proto
            /\ IF arg.proto = "icmp"
               THEN Len(jobs) = 1 /\ jobs[1].ports = <<>>
               ELSE /\ JobPorts(jobs) = ports
                    /\ Len(jobs) = Min(arg.workers, Len(ports))
                    /\ \A k \in 1..Len(jobs) :
                           /\ Len(jobs[k].ports) = (IF k <= r THEN d + 1 ELSE d)
                           /\ jobs[k].ports # <<>>

\* five ports for three workers: slices of two, two and one port
C11_Witness ==
    /\ ret # <<>>
    /\ arg.proto = "tcp"
    /\ arg.workers = 3
    /\ arg.toScan["tcp"] = <<Itoa(22), Itoa(80), Itoa(22), Itoa(22), Itoa(80)>>
    /\ Len(ret[1].jobs) = 3
    /\ ret[1].jobs[3].ports = <<Itoa(80)>>

\* C12: as sets, unexpected is open without expected and closed is expected
\* without open; so unexpected and expected, and closed and open, are disjoint, and
\* unexpected with the expected open ports is open, closed with them is expected.
C12_AccordanceSets ==
    ret # <<>> =>
        LET open == Range(arg.open)
            expected == Range(readPortsRange(arg.expected).ports)
            unexpected == Range(ret[1].unexpected)
            closed == Range(ret[1].closed)
        IN  /\ ~ret[1].err
            /\ unexpected = open \ expected
            /\ closed = expected \ open
            /\ unexpected \cap expected = {}
            /\ closed \cap open = {}
            /\ unexpected \cup (open \cap expected) = open
            /\ closed \cup (expected \cap open) = expected

\* open 80 and 22 against expected "22,443": 80 is unexpected, 443 is closed
C12_Witness ==
    /\ ret # <<>>
    /\ arg.expected = <<"2", "2", ",", "4", "4", "3">>
    /\ arg.open = <<Itoa(80), Itoa(22)>>
    /\ ret[1].unexpected = <<Itoa(80)>>
    /\ ret[1].closed = <<Itoa(443)>>

\* an option no valid configuration has
InvalidOption(o) ==
    \/ o.proto \notin Protos
    \/ readPortsRange(o.rng).err
    \/ readPortsRange(o.expected).err
    \/ getDurationErr(o.period)

\* C13: New returns an error when the address is not valid or when an option has
\* an unsupported protocol, a range or expected expression that does not parse, or
\* a period that does not parse.
C13_InvalidConfigRejected ==
    ret # <<>> =>
        ((~ParseIP(arg.ip) \/ \E i \in 1..Len(arg.o) : InvalidOption(arg.o[i]))
            => ret[1].err)

\* a decimal number without sign
IsNumber(tok) == tok # <<>> /\ \A i \in 1..Len(tok) : IsDigit(tok[i])

\* the bounds lo and hi a token of the form n or lo-hi denotes, <<>> for the others
TokenBounds(tok) ==
    LET dashes == {i \in 1..Len(tok) : tok[i] = "-"}
    IN  IF IsNumber(tok) THEN <<DigitsVal(tok), DigitsVal(tok)>>
        ELSE IF Cardinality(dashes) # 1 THEN <<>>
        ELSE LET k == CHOOSE i \in dashes : TRUE
                 lo == SubSeq(tok, 1, k - 1)
                 hi == SubSeq(tok, k + 1, Len(tok))
             IN  IF IsNumber(lo) /\ IsNumber(hi)
                 THEN <<DigitsVal(lo), DigitsVal(hi)>> ELSE <<>>

\* the tokens the grammar of range expressions allows: all, reserved, n and lo-hi
\* with 1 <= lo <= hi <= 65535
ValidToken(tok) ==
    \/ tok = <<"a", "l", "l">>
    \/ tok = <<"r", "e", "s", "e", "r", "v", "e", "d">>
    \/ /\ TokenBounds(tok) # <<>>
       /\ 1 <= TokenBounds(tok)[1]
       /\ TokenBounds(tok)[1] <= TokenBounds(tok)[2]
       /\ TokenBounds(tok)[2] <= 65535

\* the tokens of an expression that are not empty
Tokens(expr) == SelectSeq(Split(expr, ","), LAMBDA tok : tok # <<>>)

\* C14: readPortsRange fails when a token is not all, reserved, n or lo-hi with
\* 1 <= lo <= hi <= 65535, and every port of a result is a number in 1..65535.
C14_BadTokenFails ==
    ret # <<>> =>
        /\ (\E i \in 1..Len(Tokens(arg)) : ~ValidToken(Tokens(arg)[i])) => ret[1].err
        /\ ~ret[1].err =>
               \A i \in 1..Len(ret[1].ports) :
                   /\ ~Atoi(ret[1].ports[i]).err
                   /\ Atoi(ret[1].ports[i]).val \in 1..65535

\* the numbers a valid token stands for, ascending
TokenNumbers(tok) ==
    LET b == IF tok = <<"a", "l", "l">> THEN <<1, 65535>>
             ELSE IF tok = <<"r", "e", "s", "e", "r", "v", "e", "d">> THEN <<1, 1023>>
             ELSE TokenBounds(tok)
    IN  [i \in 1..(b[2] - b[1] + 1) |-> b[1] + i - 1]

RECURSIVE ExprNumbers(_)
ExprNumbers(toks) ==
    IF toks = <<>> THEN <<>> ELSE TokenNumbers(Head(toks)) \o ExprNumbers(Tail(toks))

\* C15: for an expression of valid tokens readPortsRange gives, token after token in
\* the order written, the numbers of the token in ascending order, duplicates kept
\* and empty tokens skipped; "22,80,1000-1002,reserved" gives 22, 80, 1000, 1001,
\* 1002 and then 1 to 1023.
C15_ExpansionInOrder ==
    (ret # <<>> /\ \A i \in 1..Len(Tokens(arg)) : ValidToken(Tokens(arg)[i])) =>
        /\ ~ret[1].err
        /\ [i \in 1..Len(ret[1].ports) |-> Atoi(ret[1].ports[i]).val]
               = ExprNumbers(Tokens(arg))
        /\ \A i \in 1..Len(ret[1].ports) : ret[1].ports[i] = Itoa(Atoi(ret[1].ports[i]).val)
        /\ (Len(arg) = 24) =>
               /\ SubSeq(ret[1].ports, 1, 4) = <<Itoa(22), Itoa(80), Itoa(1000), Itoa(1001)>>
               /\ ret[1].ports[Len(ret[1].ports)] = Itoa(1023)

\* "22,80,1000-1002,reserved" was parsed: 2 + 3 + 1023 ports
C15_Witness ==
    /\ ret # <<>>
    /\ Len(arg) = 24
    /\ ~ret[1].err
    /\ Len(ret[1].ports) = 1028

\* worker w is done with the job it held
WorkerDone(w) == workerJob[w] # <<>> /\ workerJob'[w] = <<>>

\* C16: when a worker is done with a job it has pushed one partial result on
\* resChan, with the scan id, job count, address and protocol of the job and with
\* ports of the job only (for icmp the port "1"), also when a probe returned an error.
C16_OnePartialPerJob ==
    [][\A w \in 1..Workers :
          WorkerDone(w) =>
              LET job == workerJob[w][1]
              IN  /\ Len(resChan') = Len(resChan) + 1
                  /\ SubSeq(resChan', 1, Len(resChan)) = resChan
                  /\ LET res == resChan'[Len(resChan')]
                     IN  /\ res.id = job.id
                         /\ res.jobCount = job.jobCount
                         /\ res.ip = job.ip
                         /\ res.protocol = job.protocol
                         /\ Range(res.ports) \subseteq
                                (IF job.protocol = "icmp" THEN {<<"1">>}
                                 ELSE Range(job.ports))]_vars

\* C17: a trigger taken for a protocol that has no scan cycle in flight is not
\* dropped: Run creates the jobs of a new cycle and has all of them to enqueue.
C17_IdleTriggerNotDropped ==
    [][TakesIdleTrigger =>
          /\ Len(started') = Len(started) + 1
          /\ started'[Len(started')].protocol = Head(trigger)
          /\ runJobs' = RunStamp(createJobs(Head(trigger)).jobs, nextId)]_vars

\* C18: every access to startTime is made with timeMutex held, only the trigger
\* loop writes an instant that is not zero and only the receiver writes the zero
\* instant.
C18_StartTimeUnderMutex ==
    \A a \in accesses :
        /\ a.locked
        /\ (a.op = "write" /\ ~a.zero) => a.task = "Run"
        /\ (a.op = "write" /\ a.zero) => a.task = "receiver"

\* the call of c has tested the membership of its address and has the list still
\* to change
MutationPending(c) ==
    \/ hpc[c] \in {"icmpRange", "icmpLoop", "icmpRemove", "icmpAppend"}
    \/ /\ hpc[c] = "icmpNotResponding"
       /\ (hres[c].OpenPorts # <<>>) <=> hlocal[c].already

\* C19: the down-host list is used under one lock: between the membership test of
\* a call and the change of the list that follows it, no other call changes the
\* list.
C19_DownSetSerialised ==
    [][notRespondingList' # notRespondingList =>
          \A c \in Targets : MutationPending(c) => Moves(c)]_vars

\* the outcomes the receiver has built: those sent to the metrics sink, then the
\* one it is about to send
BuiltOutcomes == emitted \o rcvOut

\* C20: the receiver emits one outcome per scan id, and only when the partial
\* results received for the id are as many as the jobs of the cycle: no two
\* outcomes carry the same id, and the count of an id with an outcome is the
\* job count of its cycle (never less when the outcome is built, never more later).
C20_OneOutcomePerScan ==
    /\ \A i, j \in 1..Len(BuiltOutcomes) : BuiltOutcomes[i].id = BuiltOutcomes[j].id => i = j
    /\ \A i \in 1..Len(BuiltOutcomes) :
          /\ BuiltOutcomes[i].id \in DOMAIN jobsStarted
          /\ \E k \in 1..Len(started) :
                /\ started[k].id = BuiltOutcomes[i].id
                /\ jobsStarted[BuiltOutcomes[i].id] = started[k].jobCount

\* C20: an outcome of a cycle of two jobs was sent, and a partial result of another
\* cycle is counted with no outcome yet
C20_Witness ==
    /\ \E j \in 1..Len(emitted) :
          \E k \in 1..Len(started) :
              started[k].id = emitted[j].id /\ started[k].jobCount = 2
    /\ \E id \in DOMAIN jobsStarted :
          /\ \A i \in 1..Len(BuiltOutcomes) : BuiltOutcomes[i].id # id
          /\ jobsStarted[id] = 1

\* the port strings of list read as integers never decrease
NumericAscending(list) ==
    \A i, j \in 1..Len(list) : i < j => Atoi(list[i]).val <= Atoi(list[j]).val

\* C21: the unexpected and closed lists that checkAccordance returns, which the
\* receiver copies into the outcome it sends, are in numeric ascending order,
\* whatever the order of the open list and of the expected expression.
C21_ListsNumericAscending ==
    ret # <<>> =>
        /\ NumericAscending(ret[1].unexpected)
        /\ NumericAscending(ret[1].closed)

\* no element of list occurs twice
NoDuplicates(list) == \A i, j \in 1..Len(list) : list[i] = list[j] => i = j

\* C22: the open list of every outcome the receiver sends holds each port at most
\* once, also when the range of the configuration names a port more than once.
C22_OpenListIsSet ==
    \A j \in 1..Len(emitted) : NoDuplicates(emitted[j].res.OpenPorts)

\* the messages of a channel that carry the scan id
CountIn(chan, id) == Cardinality({i \in 1..Len(chan) : chan[i].id = id})

\* the workers that hold a job of the scan id
HeldBy(id) == {w \in 1..Workers : workerJob[w] # <<>> /\ workerJob[w][1].id = id}

\* the jobs and partial results anywhere in the pipeline
InPipeline ==
    Range(runJobs) \cup Range(jobsChan) \cup Range(resChan)
        \cup {workerJob[w][1] : w \in {v \in 1..Workers : workerJob[v] # <<>>}}

\* the partial results the receiver has counted for the scan id
Received(id) == MapGet(jobsStarted, id, 0)

\* C23: the jobs of one trigger carry one scan id and the number of jobs of that
\* trigger as job count, and two triggers never share an id: every job and partial
\* result belongs to one cycle and carries its job count; the jobs of a cycle still
\* to enqueue, enqueued, held by a worker, answered and counted are together at
\* most the job count (exactly the job count for tcp and udp); the receiver never
\* counts more than the job count.
C23_JobsCarryCycle ==
    /\ \A k, l \in 1..Len(started) : started[k].id = started[l].id => k = l
    /\ \A j \in InPipeline :
          \E k \in 1..Len(started) :
              /\ started[k].id = j.id
              /\ started[k].protocol = j.protocol
              /\ started[k].jobCount = j.jobCount
    /\ \A k \in 1..Len(started) :
          LET id == started[k].id
              total == CountIn(runJobs, id) + CountIn(jobsChan, id)
                         + Cardinality(HeldBy(id)) + CountIn(resChan, id) + Received(id)
          IN  /\ total <= started[k].jobCount
              /\ started[k].protocol # "icmp" => total = started[k].jobCount
              /\ Received(id) <= started[k].jobCount
    /\ \A id \in DOMAIN jobsStarted : \E k \in 1..Len(started) : started[k].id = id

\* C23: two cycles of two jobs each are under way, with jobs of both in the
\* pipeline, and the receiver has counted every partial result of the first
C23_Witness ==
    /\ Len(started) = 2
    /\ started[1].jobCount = 2
    /\ started[2].jobCount = 2
    /\ Received(started[1].id) = 2
    /\ \E j \in InPipeline : j.id = started[2].id

\* Run waits on a channel: for a trigger, or for room in jobsChan
RunBlocked ==
    \/ runPc = "select" /\ trigger = <<>>
    \/ runPc = "send" /\ Len(jobsChan) >= ChanCap

\* worker w waits on a channel: for a job, or for room in resChan
WorkerBlocked(w) ==
    \/ workerJob[w] = <<>> /\ jobsChan = <<>>
    \/ workerJob[w] # <<>> /\ Len(resChan) >= ChanCap

\* the receiver waits on a channel: for a partial result, or for room in postScan
ReceiverBlocked ==
    \/ rcvPc = "select" /\ resChan = <<>>
    \/ rcvPc = "send" /\ Len(postScan) >= ChanCap

\* the forwarder waits for an outcome
ForwarderBlocked == hpc[ScanTarget] = "idle" /\ postScan = <<>>

\* nothing is in the pipeline
PipelineEmpty ==
    /\ runJobs = <<>>
    /\ jobsChan = <<>>
    /\ \A w \in 1..Workers : workerJob[w] = <<>>
    /\ resChan = <<>>
    /\ rcvOut = <<>>
    /\ postScan = <<>>

\* the outcomes the forwarder has taken from postScan
Delivered == Len(emitted) - Len(postScan)

\* C24: the pipeline of bounded channels does not deadlock: Run, the workers, the
\* receiver and the forwarder all wait on channels only when the pipeline is empty;
\* every job Run has created is eventually taken by a worker; every outcome the
\* receiver has sent is eventually taken by the forwarder, whose call of the sink
\* returns.
C24_PipelineNoDeadlock ==
    /\ []((RunBlocked /\ (\A w \in 1..Workers : WorkerBlocked(w))
              /\ ReceiverBlocked /\ ForwarderBlocked) => PipelineEmpty)
    /\ \A id \in 1..LoadedCycles :
          (CountIn(runJobs, id) + CountIn(jobsChan, id) > 0)
              ~> (CountIn(runJobs, id) + CountIn(jobsChan, id) = 0)
    /\ \A n \in 1..LoadedCycles :
          (Len(emitted) >= n) ~> (Delivered >= n /\ hpc[ScanTarget] = "idle")

\* C24: postScan is full and the receiver waits to send one more outcome
C24_Witness ==
    /\ Len(postScan) = ChanCap
    /\ rcvPc = "send"
    /\ ReceiverBlocked

\* the scan ids that occur in the pipeline, in the receiver or in an outcome
IdsInUse ==
    {j.id : j \in InPipeline} \cup DOMAIN jobsStarted \cup DOMAIN openPorts
        \cup {BuiltOutcomes[i].id : i \in 1..Len(BuiltOutcomes)}

\* C25: a trigger of tcp or udp whose port list is empty makes createJobs return
\* no job and no error: Run goes on, nothing of the cycle is enqueued, no outcome
\* of it is built, and the receiver never sets the start time of the protocol back
\* to zero because of it.
C25_EmptyRangeNoOutcome ==
    /\ \A k \in 1..Len(started) :
          started[k].jobCount = 0 => started[k].id \notin IdsInUse
    /\ \A p \in configured \ {"icmp"} :
          portsToScan[p] = <<>> =>
              /\ createJobs(p) = [err |-> FALSE, jobs |-> <<>>]
              /\ runPc = "select"
              /\ \A k \in 1..Len(started) : started[k].jobCount = 0
              /\ IdsInUse = {}
              /\ \A a \in accesses : a.task # "receiver"
              /\ ticks[p] > 0 => startTime[p] # 0

\* C25: Run has taken two triggers of a tcp target whose range is empty; neither
\* has an outcome and the start time is not zero
C25_Witness ==
    /\ file = "empty"
    /\ configured = {"tcp"}
    /\ portsToScan["tcp"] = <<>>
    /\ Len(started) = 2
    /\ trigger = <<>>
    /\ emitted = <<>>
    /\ startTime["tcp"] # 0

\* the gauge vector g is changed at the label values at most
GaugeFrame(g, label) ==
    \A k \in (DOMAIN g) \cup (DOMAIN g') :
        k # label => (k \in DOMAIN g /\ k \in DOMAIN g' /\ g'[k] = g[k])

\* C26: a step of Handle for an icmp outcome leaves the four port gauges and the
\* store as they are; a step of Handle for a tcp or udp outcome leaves the
\* down-host list and the down gauge as they are, changes the gauges at the labels
\* (protocol, name) of its outcome only, and the store at the key ip/protocol of
\* its outcome only.
C26_HandleFrame ==
    [][\A c \in Targets :
          (hpc[c] # "idle" /\ Moves(c)) =>
              IF hres[c].Protocol = "icmp"
              THEN /\ unexpectedGauge' = unexpectedGauge
                   /\ openGauge' = openGauge
                   /\ closedGauge' = closedGauge
                   /\ diffGauge' = diffGauge
                   /\ rdb' = rdb
              ELSE LET label == <<hres[c].Protocol, hres[c].Name>>
                       key == <<hres[c].IP, hres[c].Protocol>>
                   IN  /\ notRespondingList' = notRespondingList
                       /\ numOfDownTargets' = numOfDownTargets
                       /\ GaugeFrame(unexpectedGauge, label)
                       /\ GaugeFrame(openGauge, label)
                       /\ GaugeFrame(closedGauge, label)
                       /\ GaugeFrame(diffGauge, label)
                       /\ \A k \in Keys : k # key => rdb'[k] = rdb[k]]_vars

\* C26: an icmp call has put a host on the down-host list, and the tcp call of
\* another target has set its gauges and is writing its open ports to the store
C26_Witness ==
    /\ notRespondingList # <<>>
    /\ \E c \in Targets :
          /\ TargetIP[c] \notin Range(notRespondingList)
          /\ hpc[c] = "writeSet"
          /\ hres[c].Protocol = "tcp"
          /\ <<"tcp", c>> \in DOMAIN openGauge
          /\ <<"tcp", c>> \in DOMAIN diffGauge
          /\ rdb[<<TargetIP[c], "tcp">>] # {}

====
